---- MODULE Spec2Model ----
(***************************************************************************)
(* Model of smart_dca_m.py: the momentum scorer and rotation selector of   *)
(* run_dca, and the Streamlit session that calls it.                       *)
(*                                                                         *)
(* Units.  Prices and amounts are whole currency units.  A score is kept   *)
(* as an exact fraction <<num, den>> with den > 0 (the code uses binary    *)
(* floating point; rounding error of the float arithmetic is not           *)
(* modelled).  "Shares" is kept in thousandths of a share and "Cost" in    *)
(* thousandths of a currency unit, so that floor(amt/price*1000)/1000 and  *)
(* shares*price are exact integers.                                        *)
(***************************************************************************)
EXTENDS Integers, Sequences, FiniteSets, TLC

-----------------------------------------------------------------------------
(* Bounds of the model                                                     *)

\* instruments of the modelled universe (the defaults of the two ticker inputs)
Tickers == {"QQQ", "AAPL", "NVDA"}

\* largest rotation count a hand-written input map holds (one above the cap)
MaxCount == 4

\* the streak counter of the session saturates here
MaxStreak == 5

\* input changes (tickers, amount, rotation counts) explored per session
MaxEdits == 1

\* ticker lists handed to run_dca / chosen in the UI
TickerLists ==
  { <<>>, <<"QQQ">>, <<"QQQ", "AAPL">>, <<"AAPL", "QQQ">>,
    <<"QQQ", "AAPL", "NVDA">>, <<"NVDA", "AAPL", "QQQ">> }

-----------------------------------------------------------------------------
(* Program constants                                                       *)

\* rotation cap: "if rot.get(t,0) < 3"
Cap == 3
\* weights of the score in tenths: 0.2*r1 + 0.3*r3 + 0.5*r6
W1 == 2
W3 == 3
W6 == 5
WDen == 10
\* np.floor(amt/price*1000)/1000
Milli == 1000
\* preset amounts of the radio button
Preset450 == 450
Preset600 == 600
\* number_input(f"{t}", 0, 3, ...)
WidgetMin == 0
WidgetMax == 3

-----------------------------------------------------------------------------
(* Price source.  A quote is what the four fetch_price calls of one        *)
(* instrument give: the prices at the cutoff and 30, 90, 180 days before   *)
(* it, and which of the four lookups (if any) cannot be resolved.          *)

Lookups == {"p0", "p1", "p3", "p6"}

Quote(p0, p1, p3, p6, miss) ==
  [p0 |-> p0, p1 |-> p1, p3 |-> p3, p6 |-> p6, miss |-> miss]

\* quotes whose four lookups resolve
GoodQuotes ==
  { Quote(2, 2, 2, 2, ""),     \* flat: score 0, price 2
    Quote(3, 3, 3, 3, ""),     \* flat: score 0, price 3 (ties with the above)
    Quote(2, 1, 1, 1, ""),     \* all three returns +1: score 1
    Quote(1, 2, 2, 2, ""),     \* all three returns -1/2: score -1/2
    Quote(3, 2, 1, 3, ""),     \* r1 = 1/2, r3 = 2, r6 = 0: score 7/10
    Quote(3, 1, 2, 3, "") }    \* r1 = 2, r3 = 1/2, r6 = 0: score 11/20

\* quotes with one lookup that raises
BadQuotes == { Quote(2, 1, 1, 1, m) : m \in Lookups }

Quotes == GoodQuotes \cup BadQuotes

\* quotes used where the selection is explored over every rotation map
RankQuotes ==
  { Quote(2, 2, 2, 2, ""), Quote(2, 1, 1, 1, ""), Quote(1, 2, 2, 2, "") }

-----------------------------------------------------------------------------
(* Helpers                                                                 *)

Range(s) == { s[i] : i \in 1..Len(s) }

\* dict.get(k, d)
Get(m, k, d) == IF k \in DOMAIN m THEN m[k] ELSE d

\* keys of a dict comprehension over the list tks, in insertion order
RECURSIVE Keys(_)
Keys(s) ==
  IF s = <<>> THEN <<>>
  ELSE LET h == Keys(SubSeq(s, 1, Len(s) - 1))
           x == s[Len(s)]
       IN  IF x \in Range(h) THEN h ELSE Append(h, x)

\* a < b for fractions with positive denominators
FracLess(a, b) == a[1] * b[2] < b[1] * a[2]

-----------------------------------------------------------------------------
(* 2. fetch_price                                                          *)

\* fetch_price raises when the lookup has no row to return
fetch_fails(q, which) == q.miss = which

-----------------------------------------------------------------------------
(* 3. run_dca                                                              *)

\* faulty variant: the weights of r1 and r6 change places
Score_swapped(q) ==
  << W6 * q.p0 * q.p3 * q.p6 + W3 * q.p0 * q.p1 * q.p6 + W1 * q.p0 * q.p1 * q.p3
       - (W1 + W3 + W6) * q.p1 * q.p3 * q.p6,
     WDen * q.p1 * q.p3 * q.p6 >>

\* raw[t] = 0.2*r1 + 0.3*r3 + 0.5*r6 with rk = p0/pk - 1, as a fraction
Score(q) ==
  << W1 * q.p0 * q.p3 * q.p6 + W3 * q.p0 * q.p1 * q.p6 + W6 * q.p0 * q.p1 * q.p3
       - (W1 + W3 + W6) * q.p1 * q.p3 * q.p6,
     WDen * q.p1 * q.p3 * q.p6 >>

\* raw = {t: score}
Raw(tks, px) == [t \in Range(tks) |-> Score(px[t])]

\* faulty variant: an item also passes the items it ties with (the sort is
\* not stable)
Before_ties(raw, a, b) == ~FracLess(raw[a], raw[b])
\* faulty variant: the sort key is the size of the score (key=abs(x[1]))
Before_abs(raw, a, b) ==
  LET size(f) == << IF f[1] < 0 THEN 0 - f[1] ELSE f[1], f[2] >>
  IN  FracLess(size(raw[b]), size(raw[a]))
\* faulty variant: the sort is ascending (reverse=True left out)
Before_asc(raw, a, b) == FracLess(raw[a], raw[b])
\* an item a must come before an item b that precedes it in the input:
\* descending by score, equal scores keep their input order
Before(raw, a, b) == FracLess(raw[b], raw[a])

\* insert x into the sorted sequence s behind every item it does not beat
RECURSIVE Insert(_, _, _)
Insert(raw, s, x) ==
  IF s = <<>> THEN <<x>>
  ELSE IF Before(raw, x, s[Len(s)])
       THEN Append(Insert(raw, SubSeq(s, 1, Len(s) - 1), x), s[Len(s)])
       ELSE Append(s, x)

\* sorted(raw.items(), key=lambda x: x[1], reverse=True), tickers only
RECURSIVE sorted_raw(_, _)
sorted_raw(raw, ks) ==
  IF ks = <<>> THEN <<>>
  ELSE Insert(raw, sorted_raw(raw, SubSeq(ks, 1, Len(ks) - 1)), ks[Len(ks)])

\* faulty variant: the cap test lets a count of 3 through
Eligible_le(rot, t) == Get(rot, t, 0) <= Cap
\* if rot.get(t,0) < 3
Eligible(rot, t) == Get(rot, t, 0) < Cap

\* index of the first eligible item of the sorted list, 0 when the loop
\* runs to its else branch
FirstEligible(rot, sr) ==
  IF \E i \in 1..Len(sr) : Eligible(rot, sr[i])
  THEN CHOOSE i \in 1..Len(sr) :
         /\ Eligible(rot, sr[i])
         /\ \A j \in 1..(i - 1) : ~Eligible(rot, sr[j])
  ELSE 0

\* faulty variant: the else branch leaves the counts as they are
ResetAll_keep(rot) == rot
\* for k in rot: rot[k]=0
ResetAll(rot) == [k \in DOMAIN rot |-> 0]

\* faulty variant: the cap is restarted on every buy
Increment_one(rot, cand) == [rot EXCEPT ![cand] = 1]
\* rot[cand] += 1
Increment(rot, cand) == [rot EXCEPT ![cand] = @ + 1]

\* faulty variant: the bought ticker is cleared with the others
ClearOthers_all(rot, cand) == [k \in DOMAIN rot |-> 0]
\* faulty variant: the others keep their counts (lines 92-93 left out)
ClearOthers_keep(rot, cand) == rot
\* for k in rot: if k!=cand: rot[k]=0
ClearOthers(rot, cand) == [k \in DOMAIN rot |-> IF k = cand THEN rot[k] ELSE 0]

\* faulty variant: the thousandths are rounded to the nearest (np.round)
Shares_round(amt, price) == (2 * amt * Milli + price) \div (2 * price)
\* faulty variant: the thousandths are rounded up (np.ceil)
Shares_ceil(amt, price) == (amt * Milli + price - 1) \div price
\* shares = np.floor(amt/price*1000)/1000, in thousandths
Shares(amt, price) == (amt * Milli) \div price

\* faulty variant: the cost is rounded to cents (round(shares*price, 2))
Cost_cents(shares, price) == ((shares * price + 5) \div 10) * 10
\* cost = shares*price, in thousandths of a currency unit
Cost(shares, price) == shares * price

\* an exception run_dca raises.  "PriceUnavailable": fetch_price raises on
\* data without a row (line 45); "NoCandidates": IndexError of
\* sorted_raw[0][0] on the empty list (line 88); "KeyError": rot[cand] += 1
\* without an entry for cand (line 91), key being the missing ticker.
Error(e, key) == [outcome |-> "error", error |-> e, key |-> key]

\* faulty variant: the else branch of the scan returns no ticker for an empty list
ElsePick_none(sr) == [err |-> "", cand |-> ""]
\* else: cand = sorted_raw[0][0]   (IndexError on an empty list)
ElsePick(sr) ==
  IF sr = <<>> THEN [err |-> "NoCandidates", cand |-> ""]
  ELSE [err |-> "", cand |-> sr[1]]

\* rot[cand] += 1 raises KeyError(cand) when rot has no entry for cand
HasEntry(rot, cand) == cand \in DOMAIN rot

\* faulty variant: rot = counts, one dict under two names
rot_is_counts_alias == TRUE
\* rot = counts.copy(): rot is a new dict, writes to rot do not reach counts
rot_is_counts == FALSE

\* lines 89-93 for the chosen cand: the reset of the else branch (exhausted),
\* the increment and the clearing of the others
Rotate(counts, cand, exhausted) ==
  ClearOthers(Increment(IF exhausted THEN ResetAll(counts) ELSE counts, cand), cand)

\* lines 83-93 for the sorted list sr, i being the index the scan stops at
\* (0: the scan found nothing and the else branch runs)
SelectAt(sr, i, counts) ==
  IF i # 0
  THEN IF HasEntry(counts, sr[i])
       THEN [outcome |-> "ok", cand |-> sr[i], rot |-> Rotate(counts, sr[i], FALSE)]
       ELSE Error("KeyError", sr[i])
  ELSE IF ElsePick(sr).err # "" THEN Error(ElsePick(sr).err, "")
  ELSE IF HasEntry(counts, ElsePick(sr).cand)
       THEN [outcome |-> "ok", cand |-> ElsePick(sr).cand,
             rot |-> Rotate(counts, ElsePick(sr).cand, TRUE)]
       ELSE Error("KeyError", ElsePick(sr).cand)

SelectFrom(sr, counts) == SelectAt(sr, FirstEligible(counts, sr), counts)

\* lines 81-93: the sort, the scan, the reset and the new rotation map
Select(raw, ks, counts) == SelectFrom(sorted_raw(raw, ks), counts)

\* faulty variant: a lookup that cannot be resolved is not noticed and the quote's
\* stored number is used
AnyFetchFails_never(tks, px) == FALSE
\* some lookup of some instrument of the list raises
AnyFetchFails(tks, px) ==
  \E i \in 1..Len(tks) : \E w \in Lookups : fetch_fails(px[tks[i]], w)

\* lines 95-99: the decision for the selection sel at the cutoff price
Decide(sel, price, amt) ==
  [outcome |-> "ok", cand |-> sel.cand, price |-> price,
   shares |-> Shares(amt, price), cost |-> Cost(Shares(amt, price), price),
   rot |-> sel.rot]

DecideIfOk(sel, px, amt) ==
  IF sel.outcome # "ok" THEN sel ELSE Decide(sel, px[sel.cand].p0, amt)

\* run_dca(tks, counts, cd, bd, amt); px stands for what fetch_price gives
\* at cd, cd-30, cd-90 and cd-180 days
run_dca(tks, counts, px, amt) ==
  IF AnyFetchFails(tks, px) THEN Error("PriceUnavailable", "")
  ELSE DecideIfOk(Select(Raw(tks, px), Keys(tks), counts), px, amt)

\* the dict the caller passed as counts, as it is when run_dca has returned
\* or raised
counts_after(counts, r) ==
  IF rot_is_counts /\ r.outcome = "ok" THEN r.rot ELSE counts

-----------------------------------------------------------------------------
(* State                                                                   *)

VARIABLES
  pc,              \* direct call: "ready" before run_dca, "done" after
  tks,             \* direct call: the ticker list passed
  counts,          \* direct call: the caller's counts dict
  counts_in,       \* direct call: what counts held when the call was made
  px,              \* direct call: the quotes of the instruments of tks
  amt,             \* direct call: the amount passed
  res,             \* direct call: what run_dca returned or raised
  fed,             \* direct call: counts is the map a previous call returned
  start_ok,        \* direct call: the first map of the chain was within 0..3
  raised,          \* direct call: the ticker whose score the caller saw rise, and
                   \* its place in the sorted list of the call before
  tickers_to_use,  \* session: the ticker list of the two inputs
  amount,          \* session: the amount of the preset and custom inputs
  widgets,         \* session: the rotation number_inputs, [value, default]
  rotation,        \* st.session_state.rotation
  shown,           \* session: what the last script run wrote (st.write/st.error)
  last,            \* session: which interaction the last script run served
  failed,          \* session: the lookup that could not be resolved in that run
  edits,           \* session: input changes made so far
  chain,           \* session: every suggestion so far got the map of the one before
  streak           \* session: the run of consecutive buys of one ticker

callvars == <<pc, tks, counts, counts_in, px, amt, res, fed, start_ok, raised>>
appvars  == <<tickers_to_use, amount, widgets, rotation, shown, last,
              failed, edits, chain, streak>>
vars == <<callvars, appvars>>

None == [outcome |-> "none"]

NoStreak == [ticker |-> "", n |-> 0]

Zeros(S) == [t \in S |-> 0]

\* every dict over a subset of the universe with counts in 0..MaxCount
CountMaps == UNION { [S -> 0..MaxCount] : S \in SUBSET Tickers }

\* amounts passed to run_dca directly
Amounts == {0 - 10, 0, 1, 2, 10, Preset450, Preset600}

\* amounts the three amount inputs can produce: the two presets and a
\* custom amount (number_input 0.0..5000.0, 0 meaning "use the preset")
UiAmounts == {Preset450, Preset600, 10}

-----------------------------------------------------------------------------
(* 5. The session: one action per interaction, each a full script run      *)
(* Both "Suggest via Smart DCA" buttons are taken to be usable, and a      *)
(* script run with an empty ticker list is taken to reach the handlers     *)
(* (where run_dca raises); Streamlit itself may stop such runs earlier,    *)
(* which leaves the session state as it was as well.                       *)

DefaultTickers == <<"QQQ", "AAPL", "NVDA">>

\* lines 158-165: the number_inputs of this run.  A number_input whose
\* default (st.session_state.rotation.get(t,0)) differs from the one it was
\* built with is a new widget and shows the default; otherwise it keeps
\* what the user typed.
Render(ts, w, rot) ==
  [t \in Range(ts) |->
     IF t \in DOMAIN w /\ w[t].default = Get(rot, t, 0)
     THEN w[t]
     ELSE [value |-> Get(rot, t, 0), default |-> Get(rot, t, 0)]]

\* the quotes a suggestion of the session may meet: every ranking of the
\* instruments, and every single lookup of every instrument failing
UiQuotes(ts) ==
  [Range(ts) -> RankQuotes] \cup
  { [t \in Range(ts) |-> IF t = b THEN Quote(2, 1, 1, 1, m) ELSE Quote(2, 2, 2, 2, "")] :
      b \in Range(ts), m \in Lookups }

\* the lookup of the table q that cannot be resolved, "" when all can
MissOf(ts, q) ==
  IF \E t \in Range(ts) : q[t].miss # ""
  THEN q[CHOOSE t \in Range(ts) : q[t].miss # ""].miss
  ELSE ""

\* init_counts[t] = cols[i].number_input(...)
init_counts(w) == [t \in DOMAIN w |-> w[t].value]

AppInit ==
  /\ tickers_to_use = DefaultTickers
  /\ amount = Preset450
  /\ rotation = Zeros(Range(DefaultTickers))
  /\ widgets = Render(DefaultTickers, <<>>, Zeros(Range(DefaultTickers)))
  /\ shown = None
  /\ last = "load"
  /\ failed = ""
  /\ edits = 0
  /\ chain = TRUE
  /\ streak = NoStreak

CallIdle ==
  /\ pc = "idle"
  /\ tks = <<>>
  /\ counts = <<>>
  /\ counts_in = <<>>
  /\ px = <<>>
  /\ amt = 0
  /\ res = None
  /\ fed = FALSE
  /\ start_ok = TRUE
  /\ raised = None

Init == AppInit /\ CallIdle

\* the ticker inputs are changed (lines 144-147)
ChooseTickers(l) ==
  /\ edits < MaxEdits
  /\ l # tickers_to_use
  /\ tickers_to_use' = l
  /\ widgets' = Render(l, widgets, rotation)
  /\ shown' = None
  /\ last' = "tickers"
  /\ failed' = ""
  /\ edits' = edits + 1
  /\ UNCHANGED <<amount, rotation, chain, streak>>

\* the preset or the custom amount is changed (lines 150-152)
SetAmount(a) ==
  /\ edits < MaxEdits
  /\ a # amount
  /\ amount' = a
  /\ widgets' = Render(tickers_to_use, widgets, rotation)
  /\ shown' = None
  /\ last' = "amount"
  /\ failed' = ""
  /\ edits' = edits + 1
  /\ UNCHANGED <<tickers_to_use, rotation, chain, streak>>

\* a rotation number_input is changed (line 165)
SetCount(t, v) ==
  /\ edits < MaxEdits
  /\ t \in DOMAIN widgets
  /\ widgets[t].value # v
  /\ widgets' = Render(tickers_to_use, [widgets EXCEPT ![t].value = v], rotation)
  /\ shown' = None
  /\ last' = "count"
  /\ failed' = ""
  /\ edits' = edits + 1
  /\ UNCHANGED <<tickers_to_use, amount, rotation, chain, streak>>

\* the streak of consecutive buys after a suggestion that returned r, for a
\* call that got the map ic
NextStreak(r, ic) ==
  IF ~chain \/ ic # rotation THEN NoStreak
  ELSE IF r.outcome # "ok" THEN streak
  ELSE IF r.cand = streak.ticker
       THEN [streak EXCEPT !.n = IF @ < MaxStreak THEN @ + 1 ELSE @]
       ELSE [ticker |-> r.cand, n |-> 1]

\* faulty variant: the handler stores the rotation map it passed in
Persist5_stale(r, ic) == IF r.outcome = "ok" THEN ic ELSE rotation
\* st.session_state.rotation = res["New Rotation"], skipped by an exception
Persist5(r, ic) == IF r.outcome = "ok" THEN r.rot ELSE rotation

\* lines 172-179: the first "Suggest via Smart DCA" button
Suggest5 ==
  \E q \in UiQuotes(tickers_to_use) :
    \* (each of w, ic and r is computed once)
    \E w \in {Render(tickers_to_use, widgets, rotation)} :
    \E ic \in {init_counts(w)} :
    \E r \in {run_dca(tickers_to_use, ic, q, amount)} :
        /\ widgets' = w
        /\ shown' = r
        /\ rotation' = Persist5(r, ic)
        /\ last' = "suggest5"
        /\ failed' = MissOf(tickers_to_use, q)
        /\ chain' = (chain /\ ic = rotation)
        /\ streak' = NextStreak(r, ic)
        /\ UNCHANGED <<tickers_to_use, amount, edits>>

\* lines 220-228: the second "Suggest via Smart DCA" button
Suggest6 ==
  \E q \in UiQuotes(tickers_to_use) :
    \* (each of w, ic and r is computed once)
    \E w \in {Render(tickers_to_use, widgets, rotation)} :
    \E ic \in {init_counts(w)} :
    \E r \in {run_dca(tickers_to_use, ic, q, amount)} :
        /\ widgets' = w
        /\ shown' = r
        /\ last' = "suggest6"
        /\ failed' = MissOf(tickers_to_use, q)
        /\ UNCHANGED <<tickers_to_use, amount, rotation, edits, chain, streak>>

\* the page is opened anew: a new st.session_state
NewSession ==
  /\ last # "load"
  /\ tickers_to_use' = DefaultTickers
  /\ amount' = Preset450
  /\ rotation' = Zeros(Range(DefaultTickers))
  /\ widgets' = Render(DefaultTickers, <<>>, Zeros(Range(DefaultTickers)))
  /\ shown' = None
  /\ last' = "load"
  /\ failed' = ""
  /\ edits' = 0
  /\ chain' = TRUE
  /\ streak' = NoStreak

Next ==
  \/ \E l \in TickerLists : ChooseTickers(l) /\ UNCHANGED callvars
  \/ \E a \in UiAmounts : SetAmount(a) /\ UNCHANGED callvars
  \/ \E t \in Tickers : \E v \in WidgetMin..WidgetMax :
       SetCount(t, v) /\ UNCHANGED callvars
  \/ Suggest5 /\ UNCHANGED callvars
  \/ Suggest6 /\ UNCHANGED callvars
  \/ NewSession /\ UNCHANGED callvars

Spec == Init /\ [][Next]_vars

-----------------------------------------------------------------------------
(* run_dca called directly: the inputs are drawn at the start, Call        *)
(* applies run_dca, Feed hands the returned map to the next call with      *)
(* new quotes.                                                             *)

\* every rotation map, every ranking of the candidates
SelectInputs ==
  { [tks |-> l, counts |-> c, px |-> q, amt |-> Preset450] :
      l \in TickerLists, c \in CountMaps, q \in UNION { [Range(k) -> RankQuotes] : k \in TickerLists } }

\* every quote, resolved or not, for every candidate
PriceInputs ==
  { [tks |-> l, counts |-> Zeros(Tickers), px |-> q, amt |-> Preset450] :
      l \in TickerLists, q \in UNION { [Range(k) -> Quotes] : k \in TickerLists } }

\* every amount at every price
AmountInputs ==
  { [tks |-> l, counts |-> Zeros(Tickers), px |-> q, amt |-> a] :
      l \in { <<"QQQ">>, <<"QQQ", "AAPL">> },
      q \in [{"QQQ"} -> GoodQuotes] \cup [{"QQQ", "AAPL"} -> GoodQuotes],
      a \in Amounts }

CallInputs ==
  { in \in SelectInputs \cup PriceInputs \cup AmountInputs :
      DOMAIN in.px = Range(in.tks) }

InitCall ==
  /\ AppInit
  /\ pc = "ready"
  /\ \E in \in CallInputs :
       /\ tks = in.tks
       /\ counts = in.counts
       /\ counts_in = in.counts
       /\ px = in.px
       /\ amt = in.amt
       /\ start_ok = (\A k \in DOMAIN in.counts : in.counts[k] <= Cap)
  /\ res = None
  /\ fed = FALSE
  /\ raised = None

\* res = run_dca(tks, counts, cd, bd, amt), or the exception it raises
Call ==
  /\ pc = "ready"
  /\ pc' = "done"
  /\ res' = run_dca(tks, counts, px, amt)
  /\ counts' = counts_after(counts, run_dca(tks, counts, px, amt))
  /\ UNCHANGED <<tks, counts_in, px, amt, fed, start_ok, raised>>

\* the next cycle: the returned map is the counts of the next call
Feed ==
  /\ pc = "done"
  /\ res.outcome = "ok"
  /\ pc' = "ready"
  /\ counts' = res.rot
  /\ counts_in' = res.rot
  /\ px' \in [Range(tks) -> RankQuotes]
  /\ res' = None
  /\ fed' = TRUE
  /\ UNCHANGED <<tks, amt, start_ok, raised>>

NextCall ==
  \/ Call /\ UNCHANGED appvars
  \/ Feed /\ UNCHANGED appvars

SpecCall == InitCall /\ [][NextCall]_vars

\* the place of t in the list line 82 sorts for the tickers l and quotes q
Place(t, l, q) ==
  CHOOSE i \in 1..Len(Keys(l)) : sorted_raw(Raw(l, q), Keys(l))[i] = t

\* calls over the same map at changing prices
RaiseCounts ==
  UNION { [S -> {0, Cap - 1, Cap}] : S \in {Tickers, {"QQQ", "AAPL"}} }

RaiseInputs ==
  { [tks |-> l, counts |-> c, px |-> q, amt |-> Preset450] :
      l \in TickerLists, c \in RaiseCounts, q \in UNION { [Range(k) -> RankQuotes] : k \in TickerLists } }

InitRaise ==
  /\ AppInit
  /\ pc = "ready"
  /\ \E in \in { i \in RaiseInputs : DOMAIN i.px = Range(i.tks) } :
       /\ tks = in.tks
       /\ counts = in.counts
       /\ counts_in = in.counts
       /\ px = in.px
       /\ amt = in.amt
       /\ start_ok = (\A k \in DOMAIN in.counts : in.counts[k] <= Cap)
  /\ res = None
  /\ fed = FALSE
  /\ raised = None

\* the caller calls again with the map it passed before (as lines 220-228 do,
\* which store no rotation), at prices that give t a higher score and every
\* other ticker the score it had; raised keeps t and its place in the list
\* the call before sorted
Raise(t, q) ==
  /\ pc = "done"
  /\ \A u \in Range(tks) : px[u].miss = ""
  /\ FracLess(Score(px[t]), Score(q))
  /\ pc' = "ready"
  /\ px' = [px EXCEPT ![t] = q]
  /\ counts_in' = counts
  /\ raised' = [ticker |-> t, place |-> Place(t, tks, px)]
  /\ res' = None
  /\ UNCHANGED <<tks, counts, amt, fed, start_ok>>

NextRaise ==
  \/ Call /\ UNCHANGED appvars
  \/ \E t \in Range(tks), q \in GoodQuotes : Raise(t, q) /\ UNCHANGED appvars

SpecRaise == InitRaise /\ [][NextRaise]_vars

-----------------------------------------------------------------------------
(* Properties                                                              *)

\* the count the scan reads for t in the map the call was given
CountIn(t) == Get(counts_in, t, 0)

\* the call ran past the price lookups
Priced == pc = "done" /\ \A t \in Range(tks) : px[t].miss = ""

\* the ticker the scan of the finished call stopped at
Picked == IF res.outcome = "ok" THEN res.cand ELSE res.key

\* no candidate among S scores higher than c
TopAmong(c, S) == \A u \in S : ~FracLess(Score(px[c]), Score(px[u]))

Below3 == { t \in Range(tks) : CountIn(t) < 3 }

\* C1: when some candidate has a count below 3, the scan picks a candidate
\* whose count is below 3 and whose score no other candidate below 3 exceeds;
\* candidates at 3 or more are passed over whatever their score.
C1_PicksBestBelowCap ==
  (Priced /\ Below3 # {}) =>
     /\ res.outcome = "ok" \/ (res.outcome = "error" /\ res.error = "KeyError")
     /\ Picked \in Below3
     /\ TopAmong(Picked, Below3)

\* C1 witness: a finished call bought a ticker although a candidate at the cap
\* scored strictly higher, and another candidate below the cap scored lower.
C1_Witness ==
  /\ Priced /\ res.outcome = "ok"
  /\ \E b \in Range(tks) : CountIn(b) >= 3 /\ FracLess(Score(px[res.cand]), Score(px[b]))
  /\ \E c \in Below3 : FracLess(Score(px[c]), Score(px[res.cand]))

\* C2: when every candidate is at 3 or more, the call succeeds, buys a
\* top-scoring candidate, and returns the map with 1 for it and 0 for every
\* other key.
C2_ExhaustionReset ==
  (Priced /\ tks # <<>> /\ Below3 = {}) =>
     /\ res.outcome = "ok"
     /\ TopAmong(res.cand, Range(tks))
     /\ res.rot = [k \in DOMAIN counts_in |-> IF k = res.cand THEN 1 ELSE 0]

\* C2 witness: an exhausted call over two candidates or more, one of them
\* above the cap, that has returned.
C2_Witness ==
  /\ Priced /\ Len(tks) >= 2 /\ Below3 = {} /\ res.outcome = "ok"
  /\ \E t \in Range(tks) : CountIn(t) > 3
  /\ \E t \in Range(tks) : FracLess(Score(px[t]), Score(px[res.cand]))

\* C3: in a chain of calls that starts from a map with counts in 0..3, every
\* map given to a call and every map returned has its counts in 0..3, and a
\* returned map has a nonzero count for the bought ticker only.
C3_RotationCap ==
  start_ok =>
     /\ \A k \in DOMAIN counts_in : counts_in[k] \in 0..3
     /\ (pc = "done" /\ res.outcome = "ok") =>
          /\ \A k \in DOMAIN res.rot : res.rot[k] \in 0..3
          /\ res.rot[res.cand] >= 1
          /\ \A k \in DOMAIN res.rot : k # res.cand => res.rot[k] = 0

\* C3 witness: a call fed with a returned map has brought a ticker to 3.
C3_Witness ==
  /\ start_ok /\ fed /\ pc = "done" /\ res.outcome = "ok"
  /\ res.rot[res.cand] = 3

\* C4: while every suggestion of the session has been given the map the one
\* before it stored (all zero at first) over two candidates or more, no
\* ticker is bought more than 3 times in a row.
C4_AtMostThreeInARow ==
  (chain /\ Len(tickers_to_use) >= 2) => streak.n <= 3

\* C4 witness: in such a session a ticker was bought three times in a row and
\* the suggestion after them bought another one.
C4_Witness ==
  /\ chain /\ Len(tickers_to_use) >= 2
  /\ last = "suggest5" /\ shown.outcome = "ok" /\ streak.n = 1
  /\ \E t \in DOMAIN widgets : t # shown.cand /\ widgets[t].value = 3

\* C5: a successful call that found a candidate below 3 returns a map over
\* the keys it was given, with the bought ticker one above its count and
\* every other key, candidate or not, at 0.
C5_IncrementAndClear ==
  (Priced /\ Below3 # {} /\ res.outcome = "ok") =>
     /\ DOMAIN res.rot = DOMAIN counts_in
     /\ res.rot[res.cand] = counts_in[res.cand] + 1
     /\ \A k \in DOMAIN res.rot : k # res.cand => res.rot[k] = 0

\* C5 witness: the bought ticker had a count already, and a key that is no
\* candidate had a nonzero count.
C5_Witness ==
  /\ Priced /\ Below3 # {} /\ res.outcome = "ok"
  /\ counts_in[res.cand] >= 1
  /\ \E k \in DOMAIN counts_in : k \notin Range(tks) /\ counts_in[k] > 0

\* C6: a call with an empty ticker list raises the error of the empty
\* candidate list, returns nothing, and leaves the caller's map as it was.
C6_NoCandidates ==
  (pc = "done" /\ tks = <<>>) =>
     /\ res = Error("NoCandidates", "")
     /\ counts = counts_in

\* C6 witness: a finished call with an empty list and a map with nonzero counts.
C6_Witness ==
  /\ pc = "done" /\ tks = <<>>
  /\ \E k \in DOMAIN counts_in : counts_in[k] > 0

\* C7 (as claimed): a call with an amount of 0 or less, whose other inputs
\* are in order, fails with InvalidAmount.
C7_InvalidAmount ==
  (Priced /\ amt <= 0 /\ tks # <<>> /\ Range(tks) \subseteq DOMAIN counts_in) =>
     /\ res.outcome = "error"
     /\ res.error = "InvalidAmount"

\* C8: a suggestion in which a price lookup cannot be resolved shows an
\* error, no decision, and leaves st.session_state.rotation as it was.
C8_PriceUnavailable ==
  [][(last' = "suggest5" /\ failed' # "") =>
       /\ shown' = Error("PriceUnavailable", "")
       /\ rotation' = rotation]_vars

\* C8 witness: the last lookup (180 days back) failed in a suggestion made
\* after an earlier one had advanced the rotation.
C8_Witness ==
  /\ last = "suggest5" /\ failed = "p6"
  /\ shown.outcome = "error"
  /\ \E t \in DOMAIN rotation : rotation[t] > 0

\* C9 (as claimed): a candidate without an entry in the map counts as 0; when
\* it is the one strictly top-scoring candidate, the call succeeds, buys it
\* and returns the map with 1 for it.
C9_MissingEntryIsZero ==
  \A t \in Range(tks) :
    ( /\ Priced
      /\ t \notin DOMAIN counts_in
      /\ \A u \in Range(tks) \ {t} : FracLess(Score(px[u]), Score(px[t])) )
    => /\ res.outcome = "ok"
       /\ res.cand = t
       /\ res.rot[t] = 1

\* C10: when a call has ended, the map the caller passed holds what it held
\* before the call, and a returned map is another map than that one.
C10_InputUntouched ==
  pc = "done" =>
     /\ counts = counts_in
     /\ res.outcome = "ok" => res.rot # counts

\* C10 witness: a call that took the else branch (every candidate at 3 or
\* more) has returned.
C10_Witness ==
  /\ Priced /\ tks # <<>> /\ Below3 = {} /\ res.outcome = "ok"
  /\ \E k \in DOMAIN counts_in : k \notin Range(tks)

\* a call that returned a decision for a positive amount
Bought == Priced /\ res.outcome = "ok" /\ amt > 0

\* C12: for a positive amount and price the shares, in thousandths, are the
\* largest whole number n with n * price <= amount * 1000: the quotient is
\* cut off, never rounded up.
C12_SharesTruncated ==
  Bought =>
     /\ res.shares * res.price <= amt * 1000
     /\ amt * 1000 < (res.shares + 1) * res.price

\* C12 witness: the cut-off part is more than half a thousandth of a share,
\* so rounding to the nearest would have given one thousandth more.
C12_Witness ==
  /\ Bought
  /\ 2 * (amt * 1000 - res.shares * res.price) > res.price

\* C13: the cost of a decision is its shares times its price, and its price
\* is the cutoff price of the bought ticker.
C13_CostIsSharesTimesPrice ==
  (Priced /\ res.outcome = "ok") =>
     /\ res.cost = res.shares * res.price
     /\ res.price = px[res.cand].p0

\* C13 witness: a decision whose cost is below the amount, for a ticker that
\* is not the only candidate and whose price differs from another's.
C13_Witness ==
  /\ Bought /\ res.cost < amt * 1000
  /\ \E u \in Range(tks) : px[u].p0 # res.price

\* C20: for a positive amount and price the cost does not exceed the amount,
\* and what is left of the amount is less than a thousandth of the price.
C20_RemainderBelowOneThousandth ==
  Bought =>
     /\ res.cost <= amt * 1000
     /\ amt * 1000 - res.cost < res.price

\* C20 witness: a decision that leaves a part of the amount uninvested.
C20_Witness ==
  /\ Bought /\ res.cost < amt * 1000 /\ res.price > 1

\* fractions with positive denominators
FracEq(a, b) == a[1] * b[2] = b[1] * a[2]
FracAdd(a, b) == << a[1] * b[2] + b[1] * a[2], a[2] * b[2] >>

\* w tenths of the trailing return p0/pk - 1
TenthsOfReturn(w, p0, pk) == << w * (p0 - pk), 10 * pk >>

\* 0.2*r1 + 0.3*r3 + 0.5*r6, summed return by return
WeightedReturns(q) ==
  FracAdd(FracAdd(TenthsOfReturn(2, q.p0, q.p1), TenthsOfReturn(3, q.p0, q.p3)),
          TenthsOfReturn(5, q.p0, q.p6))

\* C16: the score of every candidate is 0.2*r1 + 0.3*r3 + 0.5*r6 with
\* rk = p0/pk - 1; the weights sum to 1; four equal prices score 0; three
\* equal returns r score r.
C16_ScoreIsWeightedReturns ==
  Priced =>
     /\ W1 + W3 + W6 = WDen
     /\ \A t \in Range(tks) :
          /\ FracEq(Raw(tks, px)[t], WeightedReturns(px[t]))
          /\ (px[t].p1 = px[t].p0 /\ px[t].p3 = px[t].p0 /\ px[t].p6 = px[t].p0)
               => Raw(tks, px)[t][1] = 0
          /\ (px[t].p3 = px[t].p1 /\ px[t].p6 = px[t].p1)
               => FracEq(Raw(tks, px)[t], << px[t].p0 - px[t].p1, px[t].p1 >>)

\* C16 witness: a call scored a candidate whose three returns differ, one
\* with equal nonzero returns and one with four equal prices.
C16_Witness ==
  /\ Priced
  /\ \E t \in Range(tks) : px[t].p1 # px[t].p3 /\ px[t].p3 # px[t].p6
  /\ \E t \in Range(tks) : px[t].p3 = px[t].p1 /\ px[t].p6 = px[t].p1 /\ px[t].p0 # px[t].p1
  /\ \E t \in Range(tks) : px[t].p1 = px[t].p0 /\ px[t].p3 = px[t].p0 /\ px[t].p6 = px[t].p0

\* the place of t in the ticker list passed
Index(t) == CHOOSE i \in 1..Len(tks) : tks[i] = t /\ \A j \in 1..(i - 1) : tks[j] # t

\* the candidates the scan can stop at: those below 3, all of them when none is
Pool == IF Below3 # {} THEN Below3 ELSE Range(tks)

\* C17: among the candidates that tie with the picked one, none stands
\* earlier in the ticker list passed, on the normal and on the else branch.
C17_TiesByInputOrder ==
  (Priced /\ tks # <<>>) =>
     /\ Picked \in Pool
     /\ \A u \in Pool :
          FracEq(Score(px[u]), Score(px[Picked])) => Index(Picked) <= Index(u)

\* C17 witness: on the else branch two candidates tie at the top and the one
\* listed first is bought, in a list that is not in alphabetical order.
C17_Witness ==
  /\ Priced /\ Below3 = {} /\ res.outcome = "ok"
  /\ tks[1] = "NVDA" /\ res.cand = "NVDA"
  /\ \E u \in Range(tks) \ {"NVDA"} : FracEq(Score(px[u]), Score(px["NVDA"]))

\* the finished call ran the else branch of the scan
TookElse ==
  /\ Priced /\ tks # <<>>
  /\ FirstEligible(counts_in, sorted_raw(Raw(tks, px), Keys(tks))) = 0

\* C15 (as claimed): a returned count is lower than the count passed only in
\* a call that ran the else branch.
C15_LoweredOnlyByReset ==
  (Priced /\ res.outcome = "ok") =>
     \A k \in DOMAIN counts_in : res.rot[k] < counts_in[k] => TookElse

\* C15 (amended): a returned count is lower than the count passed only in a
\* call that ran the else branch, or for a key other than the bought ticker.
C15_LoweredByResetOrClear ==
  (Priced /\ res.outcome = "ok") =>
     \A k \in DOMAIN counts_in :
        res.rot[k] < counts_in[k] => (TookElse \/ k # res.cand)

\* C15 witness: a call that found a candidate below 3 returned a lower count
\* for another candidate and a higher one for the bought ticker, which had a
\* count already.
C15_Witness ==
  /\ Priced /\ res.outcome = "ok" /\ ~TookElse
  /\ counts_in[res.cand] >= 1 /\ res.rot[res.cand] > counts_in[res.cand]
  /\ \E k \in Range(tks) \cap DOMAIN counts_in : res.rot[k] < counts_in[k]

\* C18 (as claimed): after a successful suggestion of either button,
\* st.session_state.rotation is the New Rotation of the decision shown.
C18_RotationPersisted ==
  (last \in {"suggest5", "suggest6"} /\ shown.outcome = "ok") =>
     rotation = shown.rot

\* C19: with two candidates or more, all with an entry in the map, a call
\* given the map a previous call returned, or the map of zeros, does not run
\* the else branch.
C19_NoResetInChain ==
  ( /\ pc = "done"
    /\ Cardinality(Range(tks)) >= 2
    /\ Range(tks) \subseteq DOMAIN counts_in
    /\ fed \/ \A k \in DOMAIN counts_in : counts_in[k] = 0 )
  => ~TookElse

\* C19 witness: a call given a returned map in which a candidate stands at 3
\* bought another candidate.
C19_Witness ==
  /\ Priced /\ fed /\ res.outcome = "ok"
  /\ Cardinality(Range(tks)) >= 2 /\ Range(tks) \subseteq DOMAIN counts_in
  /\ \E t \in Range(tks) : counts_in[t] = 3 /\ t # res.cand

\* every candidate of the call has a count below 3
AllBelow3 == \A t \in Range(tks) : CountIn(t) < Cap

\* C14: when a call is repeated over the same map, all counts below 3, with
\* one ticker's score raised and the other scores as they were, the ticker
\* stands no later in the sorted list than before, and when it outscores
\* every other candidate the scan stops at it.
C14_Monotonicity ==
  (Priced /\ raised # None /\ AllBelow3) =>
     /\ Place(raised.ticker, tks, px) <= raised.place
     /\ (\A u \in Range(tks) \ {raised.ticker} :
            FracLess(Score(px[u]), Score(px[raised.ticker])))
          => Picked = raised.ticker

\* C14, a case of the first half: the raised ticker was last of three, overtook one candidate
\* only, and the call bought another; and it has an entry in the map.
C14_WitnessOvertake ==
  /\ Priced /\ raised # None /\ AllBelow3 /\ res.outcome = "ok"
  /\ Len(tks) = 3 /\ raised.place = 3
  /\ Place(raised.ticker, tks, px) = 2
  /\ res.cand # raised.ticker
  /\ raised.ticker \in DOMAIN counts_in

\* C14 witness: the raised ticker was not bought before
\* and, now the one top scorer, is bought.
C14_Witness ==
  /\ Priced /\ raised # None /\ AllBelow3 /\ res.outcome = "ok"
  /\ raised.place > 1 /\ res.cand = raised.ticker
  /\ \A u \in Range(tks) \ {raised.ticker} :
        FracLess(Score(px[u]), Score(px[raised.ticker]))

====
